---- MODULE Spec2Model ----
(***************************************************************************)
(* Model of the template catalog browser (TemplateGrid: catalog            *)
(* normalisation, debounced fuzzy search, tag filtering, publication to    *)
(* the store) and of the catalog maintenance script dedupe-and-sort-meta.  *)
(***************************************************************************)
EXTENDS Integers, Sequences, FiniteSets, TLC

VARIABLES
    templates,          \* store.templates: the raw catalog
    uniqueTemplates,    \* useMemo value: the normalized catalog
    renderThrew,        \* TRUE once a render of TemplateGrid threw
    stage,              \* position of the pure-function specifications
    debouncedValue,     \* useDebounce state: debouncedSearchQuery
    selectedTags,       \* store.selectedTags
    working,            \* filtered after the text stage of filteredTemplates
    filteredTemplates,  \* useMemo value: the filtered result
    hookResult,         \* what useFuseSearch's search returned
    searchQuery,        \* store.searchQuery: the raw query
    storeFiltered,      \* store.filteredTemplates: the published items
    templatesCount,     \* store.templatesCount: the published count
    loading,            \* useState: loading
    error,              \* useState: error (Null or a message)
    fetchState,         \* "idle", "inflight", "loaded" or "failed"
    fetchCount,         \* how many times fetch("/meta.json") was issued
    timers,             \* the pending setTimeout timers
    handler,            \* the timer id held by the debounce effect's cleanup
    pendingEffects,     \* the effects of the last render still to run
    searchResults,      \* what fuse.search gives for the debounced query
    lastUpdateAge,      \* time since the last query update (-1: none yet)
    emitted,            \* values passed to setDebouncedValue in this burst
    burstBase,          \* debouncedValue when the burst began
    burstChanges,       \* changes of debouncedValue in this burst
    burstLen,           \* query updates in this burst, counted up to MaxBurst
    metaFile,           \* the catalog file meta.json on disk
    backupFiles,        \* the contents of the backup files on disk
    fileContent,        \* the script's fileContent: what it read
    unique,             \* the script's unique array
    scriptPc,           \* where the script is
    exitCode,           \* the script's exit status (-1 while it runs)
    selectedTemplate,   \* useState: the id of the selected template, or Null
    templateFiles,      \* useState: the two documents shown in the dialog
    modalLoading,       \* useState: modalLoading
    detailFetches,      \* the calls of fetchTemplateFiles still awaiting
    lastLookups         \* the lookups behind the last setTemplateFiles

normVars == <<templates, uniqueTemplates, renderThrew>>
filterVars == <<debouncedValue, selectedTags, working, filteredTemplates, hookResult>>

storeVars == <<searchQuery, storeFiltered, templatesCount>>
fetchVars == <<loading, error, fetchState, fetchCount>>
timerVars == <<timers, handler>>
burstVars == <<lastUpdateAge, emitted, burstBase, burstChanges, burstLen>>
detailVars == <<selectedTemplate, templateFiles, modalLoading, detailFetches, lastLookups>>
viewVars ==
    <<storeVars, fetchVars, timerVars, pendingEffects, searchResults, burstVars,
      detailVars>>

scriptVars == <<metaFile, backupFiles, fileContent, unique, scriptPc, exitCode>>

vars == <<normVars, stage, filterVars, viewVars, scriptVars>>

-----------------------------------------------------------------------------
(* Bounds of the model *)

MaxCatalog == 3
MaxFilterCatalog == 2
MaxQueryLen == 2
MaxTags == 2
TickStep == 100
MaxBurst == 3
MaxInFlight == 2

-----------------------------------------------------------------------------
(* JavaScript values *)

\* The value undefined; a template literal prints it as "undefined".
Undefined == "undefined"

\* !x for the values an id or a name takes here.
Falsy(x) == x = "" \/ x = Undefined

\* The value null of the error state.
Null == "null"

Range(s) == {s[i] : i \in 1..Len(s)}

-----------------------------------------------------------------------------
(* Raw catalog records.  kind "object" is a structured record, "primitive" *)
(* a number or string (every property read gives undefined), "null" the    *)
(* value null (every property read throws).                                *)

RawIds == {"", Undefined, "a", "b", "b-1"}
RawNames == {Undefined, "a", "b"}

NullTemplate == [kind |-> "null", id |-> Undefined, name |-> Undefined, tags |-> <<>>]
PrimitiveTemplate == [kind |-> "primitive", id |-> Undefined, name |-> Undefined, tags |-> <<>>]

ObjectTemplates(ids, names, tagLists) ==
    {[kind |-> "object", id |-> i, name |-> n, tags |-> t] :
        i \in ids, n \in names, t \in tagLists}

RawTemplates == ObjectTemplates(RawIds, RawNames, {<<>>}) \cup {NullTemplate, PrimitiveTemplate}

SeqsUpTo(S, n) == UNION {[1..k -> S] : k \in 0..n}

\* A record that is a structured object with a usable id or a usable name.
WellFormed(t) == t.kind = "object" /\ (~Falsy(t.id) \/ ~Falsy(t.name))

-----------------------------------------------------------------------------
(* Map<string, Template>: the entries in insertion order *)

MapHas(map, key) == \E i \in 1..Len(map) : map[i].key = key

\* A buggy set that always appends.
MapSetAppend(map, key, value) == Append(map, [key |-> key, value |-> value])

\* Map.prototype.set: overwrite in place, or append a new entry.
MapSet(map, key, value) ==
    IF MapHas(map, key)
    THEN [i \in 1..Len(map) |->
            IF map[i].key = key THEN [key |-> key, value |-> value] ELSE map[i]]
    ELSE Append(map, [key |-> key, value |-> value])

MapValues(map) == [i \in 1..Len(map) |-> map[i].value]

-----------------------------------------------------------------------------
(* uniqueTemplates: the normalizer *)

\* The key chosen for the record at zero-based position index.
UniqueKey(map, seenNames, template, index) ==
    IF MapHas(map, template.id) \/ Falsy(template.id)
    THEN IF template.name \in seenNames
         THEN template.name \o "-" \o ToString(index)
         ELSE template.name
    ELSE template.id

\* One call of the forEach callback.  pos is the record's position in the
\* raw catalog, kept to tell the copies apart.
NormStep(acc, template, index) ==
    IF acc.threw \/ template.kind = "null"
    THEN [acc EXCEPT !.threw = TRUE]
    ELSE LET uniqueKey == UniqueKey(acc.map, acc.seenNames, template, index)
         IN  [threw |-> FALSE,
              seenNames |-> acc.seenNames \cup {template.name},
              map |-> MapSet(acc.map, uniqueKey,
                             [id |-> uniqueKey, name |-> template.name,
                              tags |-> template.tags, pos |-> index])]

RECURSIVE NormLoop(_, _, _)
NormLoop(acc, raw, i) ==
    IF i > Len(raw) THEN acc
    ELSE NormLoop(NormStep(acc, raw[i], i - 1), raw, i + 1)

\* The useMemo body: [threw, out].
Normalize(raw) ==
    IF Len(raw) = 0 THEN [threw |-> FALSE, out |-> <<>>]
    ELSE LET acc == NormLoop([threw |-> FALSE, seenNames |-> {}, map |-> <<>>], raw, 1)
         IN  [threw |-> acc.threw,
              out |-> IF acc.threw THEN <<>> ELSE MapValues(acc.map)]

-----------------------------------------------------------------------------
(* The pure-function specifications leave the rest of the view alone. *)

\* setTemplateFiles(null)
NoFiles == [loaded |-> FALSE, dockerCompose |-> Null, config |-> Null]

\* No template is selected and no detail was ever requested.
DetailAtRest ==
    /\ selectedTemplate = Null
    /\ templateFiles = NoFiles
    /\ modalLoading = FALSE
    /\ detailFetches = {}
    /\ lastLookups = [id |-> Null, dockerCompose |-> "none", config |-> "none"]

ViewAtRest ==
    /\ DetailAtRest
    /\ searchQuery = <<>>
    /\ storeFiltered = <<>>
    /\ templatesCount = 0
    /\ loading = TRUE
    /\ error = Null
    /\ fetchState = "idle"
    /\ fetchCount = 0
    /\ timers = {}
    /\ handler = 0
    /\ pendingEffects = <<>>
    /\ searchResults = <<>>
    /\ lastUpdateAge = -1
    /\ emitted = <<>>
    /\ burstBase = <<>>
    /\ burstChanges = 0
    /\ burstLen = 0

\* The maintenance script is not running.
ScriptAtRest ==
    /\ metaFile = [kind |-> "missing"]
    /\ backupFiles = {}
    /\ fileContent = [kind |-> "missing"]
    /\ unique = <<>>
    /\ scriptPc = "idle"
    /\ exitCode = -1

-----------------------------------------------------------------------------
(* Specification of the normalizer: any raw catalog, then one evaluation. *)

InitNorm ==
    /\ templates \in SeqsUpTo(RawTemplates, MaxCatalog)
    /\ uniqueTemplates = <<>>
    /\ renderThrew = FALSE
    /\ stage = "raw"
    /\ debouncedValue = <<>>
    /\ selectedTags = <<>>
    /\ working = <<>>
    /\ filteredTemplates = <<>>
    /\ hookResult = <<>>
    /\ ViewAtRest
    /\ ScriptAtRest

NormalizeCatalog ==
    /\ stage = "raw"
    /\ uniqueTemplates' = Normalize(templates).out
    /\ renderThrew' = Normalize(templates).threw
    /\ stage' = "normalized"
    /\ UNCHANGED <<templates, filterVars, viewVars, scriptVars>>

NextNorm == NormalizeCatalog

SpecNorm == InitNorm /\ [][NextNorm]_vars

-----------------------------------------------------------------------------
(* Query strings are sequences of characters. *)

Chars == {" ", "a"}
Queries == SeqsUpTo(Chars, MaxQueryLen)

RECURSIVE TrimStart(_)
TrimStart(q) ==
    IF Len(q) > 0 /\ Head(q) = " " THEN TrimStart(Tail(q)) ELSE q

RECURSIVE TrimEnd(_)
TrimEnd(q) ==
    IF Len(q) > 0 /\ q[Len(q)] = " " THEN TrimEnd(SubSeq(q, 1, Len(q) - 1)) ELSE q

\* String.prototype.trim
Trim(q) == TrimEnd(TrimStart(q))

-----------------------------------------------------------------------------
(* Fuse.js.  The library is outside the repository: a search returns some   *)
(* of the indexed records, each at most once, in the order of their scores. *)

Tags == {"x", "y"}
TagLists == SeqsUpTo(Tags, MaxTags)

\* new Fuse(...) is built for a non-empty catalog only; otherwise fuse is null.
FuseBuilt(catalog) == Len(catalog) > 0

FuseResults(catalog) ==
    {r \in SeqsUpTo(Range(catalog), Len(catalog)) :
        \A i, j \in 1..Len(r) : i # j => r[i] # r[j]}

-----------------------------------------------------------------------------
(* filteredTemplates: text stage, then tag stage *)

\* A text stage that forgets to trim.
SearchActiveNoTrim(query, catalog) == Len(query) > 0 /\ FuseBuilt(catalog)

\* debouncedSearchQuery.trim() && fuse
SearchActive(query, catalog) == Len(Trim(query)) > 0 /\ FuseBuilt(catalog)

\* The working set: the search results when a search runs, else the catalog.
TextStage(catalog, query, results) ==
    IF SearchActive(query, catalog) THEN results ELSE catalog

\* A tag test that accepts a record having any one of the selected tags.
HasSomeTag(template, tags) ==
    \E k \in 1..Len(tags) : tags[k] \in Range(template.tags)

\* selectedTags.every((tag) => template.tags.includes(tag))
HasEveryTag(template, tags) ==
    \A k \in 1..Len(tags) : tags[k] \in Range(template.tags)

RECURSIVE FilterSeq(_, _)
FilterSeq(list, tags) ==
    IF Len(list) = 0 THEN <<>>
    ELSE IF HasEveryTag(Head(list), tags)
         THEN <<Head(list)>> \o FilterSeq(Tail(list), tags)
         ELSE FilterSeq(Tail(list), tags)

\* A tag stage that hands back the retained records in the opposite order.
TagStageReversed(list, tags) ==
    IF Len(tags) > 0
    THEN LET kept == FilterSeq(list, tags)
         IN  [i \in 1..Len(kept) |-> kept[Len(kept) + 1 - i]]
    ELSE list

\* if (selectedTags.length > 0) filtered = filtered.filter(...)
TagStage(list, tags) ==
    IF Len(tags) > 0 THEN FilterSeq(list, tags) ELSE list

\* The useMemo body of filteredTemplates, given what fuse.search returns.
FilterTemplates(catalog, query, tags, results) ==
    IF Len(catalog) = 0 THEN <<>>
    ELSE TagStage(TextStage(catalog, query, results), tags)

\* useFuseSearch(templates).search(query)
HookSearch(catalog, query, results) ==
    IF ~FuseBuilt(catalog) \/ Len(Trim(query)) = 0 THEN catalog ELSE results

-----------------------------------------------------------------------------
(* Specification of the filter pipeline: a normalized catalog, a debounced *)
(* query and a tag selection, then one evaluation.                         *)

FilterCatalogRecords ==
    ObjectTemplates({"a", "b"}, {"n"}, {<<>>, <<"x">>, <<"x", "y">>})

InitFilter ==
    /\ templates \in SeqsUpTo(FilterCatalogRecords, MaxFilterCatalog)
    /\ uniqueTemplates = Normalize(templates).out
    /\ renderThrew = FALSE
    /\ stage = "normalized"
    /\ debouncedValue \in Queries
    /\ selectedTags \in TagLists
    /\ working = <<>>
    /\ filteredTemplates = <<>>
    /\ hookResult = <<>>
    /\ ViewAtRest
    /\ ScriptAtRest

ComputeFiltered ==
    /\ stage = "normalized"
    /\ \E results \in FuseResults(uniqueTemplates) :
          /\ working' = TextStage(uniqueTemplates, debouncedValue, results)
          /\ filteredTemplates' =
                FilterTemplates(uniqueTemplates, debouncedValue, selectedTags, results)
          /\ hookResult' = HookSearch(uniqueTemplates, debouncedValue, results)
    /\ stage' = "filtered"
    /\ UNCHANGED <<normVars, debouncedValue, selectedTags, viewVars, scriptVars>>

NextFilter == ComputeFiltered

SpecFilter == InitFilter /\ [][NextFilter]_vars

-----------------------------------------------------------------------------
(* The mounted TemplateGrid.  An event handler's action includes the       *)
(* render it causes (the memo values are recomputed when their inputs      *)
(* changed); the effects of that render then run one at a time, in the     *)
(* order the component declares them, before the next event is handled.    *)

Delay == 300

MinOf(S) == CHOOSE x \in S : \A y \in S : x <= y

EventReady == pendingEffects = <<>> /\ ~renderThrew

\* A timer that is due fires before a later keystroke is handled.
NoTimerDue == \A t \in timers : t.remaining > 0

PublishEffects == <<"setFiltered", "setCount">>

MountEffects == <<"debounce", "setFiltered", "setCount", "fetch">>

\* What fuse.search may return for a query, when it is called at all.
SearchOutcomes(catalog, query) ==
    IF SearchActive(query, catalog) THEN FuseResults(catalog) ELSE {<<>>}

\* A memo whose dependency list leaves out selectedTags: it filters with the
\* tags of the render before.
RecomputeFilteredStaleTags(results) ==
    /\ searchResults' = results
    /\ working' = TextStage(uniqueTemplates', debouncedValue', results)
    /\ filteredTemplates' =
          FilterTemplates(uniqueTemplates', debouncedValue', selectedTags, results)

\* The re-evaluation of the filteredTemplates memo after its inputs changed.
RecomputeFiltered(results) ==
    /\ searchResults' = results
    /\ working' = TextStage(uniqueTemplates', debouncedValue', results)
    /\ filteredTemplates' =
          FilterTemplates(uniqueTemplates', debouncedValue', selectedTags', results)

\* A debouncer whose state starts empty whatever value it is given.
InitialDebouncedEmpty(value) == <<>>

\* useState<T>(value): the first debounced value is the value passed in.
InitialDebounced(value) == value

\* State after the first render, before its effects: useState seeds
\* debouncedValue with the query the store holds.
Mounted(initialQuery) ==
    /\ DetailAtRest
    /\ templates = <<>>
    /\ uniqueTemplates = <<>>
    /\ renderThrew = FALSE
    /\ stage = "mounted"
    /\ searchQuery = initialQuery
    /\ debouncedValue = InitialDebounced(initialQuery)
    /\ selectedTags = <<>>
    /\ working = <<>>
    /\ filteredTemplates = <<>>
    /\ hookResult = <<>>
    /\ storeFiltered = <<>>
    /\ templatesCount = 0
    /\ loading = TRUE
    /\ error = Null
    /\ fetchState = "idle"
    /\ fetchCount = 0
    /\ timers = {}
    /\ handler = 0
    /\ pendingEffects = MountEffects
    /\ searchResults = <<>>
    /\ lastUpdateAge = -1
    /\ emitted = <<>>
    /\ burstBase = initialQuery
    /\ burstChanges = 0
    /\ burstLen = 0
    /\ ScriptAtRest

(* useDebounce *)

\* A cleanup that releases nothing.
ClearTimeoutNoop(ts, id) == ts

\* clearTimeout(handler)
ClearTimeout(ts, id) == {t \in ts : t.id # id}

\* The id setTimeout hands out: one no pending timer has.
NewTimerId ==
    MinOf({i \in 1..(Cardinality(timers) + 2) :
              i # handler /\ \A t \in timers : t.id # i})

\* An effect that runs after the first render only and never again when the
\* value changes.
DebounceEffectMountOnly ==
    /\ Len(pendingEffects) > 0
    /\ Head(pendingEffects) = "debounce"
    /\ IF handler = 0
       THEN /\ timers' = ClearTimeout(timers, handler) \cup
                       {[id |-> NewTimerId, value |-> searchQuery, remaining |-> Delay]}
            /\ handler' = NewTimerId
       ELSE UNCHANGED <<timers, handler>>
    /\ pendingEffects' = Tail(pendingEffects)
    /\ UNCHANGED <<normVars, stage, scriptVars, detailVars, filterVars, storeVars, fetchVars,
                   searchResults, burstVars>>

\* The effect of useDebounce: the previous run's cleanup, then setTimeout.
DebounceEffect ==
    /\ Len(pendingEffects) > 0
    /\ Head(pendingEffects) = "debounce"
    /\ timers' = ClearTimeout(timers, handler) \cup
                    {[id |-> NewTimerId, value |-> searchQuery, remaining |-> Delay]}
    /\ handler' = NewTimerId
    /\ pendingEffects' = Tail(pendingEffects)
    /\ UNCHANGED <<normVars, stage, scriptVars, detailVars, filterVars, storeVars, fetchVars,
                   searchResults, burstVars>>

\* A timer callback after which the filtered list is not computed again.
TimerFireStaleMemo ==
    /\ EventReady
    /\ \E t \in timers :
          /\ t.remaining = 0
          /\ timers' = timers \ {t}
          /\ debouncedValue' = t.value
          /\ emitted' = Append(emitted, t.value)
          /\ burstChanges' = burstChanges + (IF t.value # debouncedValue THEN 1 ELSE 0)
    /\ UNCHANGED <<normVars, selectedTags, working, filteredTemplates, searchResults,
                   pendingEffects, stage, scriptVars, detailVars, hookResult, storeVars, fetchVars,
                   handler, lastUpdateAge, burstBase, burstLen>>

\* The timer callback: setDebouncedValue(value), and the render that follows
\* when the value changed.
TimerFire ==
    /\ EventReady
    /\ \E t \in timers :
          /\ t.remaining = 0
          /\ timers' = timers \ {t}
          /\ debouncedValue' = t.value
          /\ emitted' = Append(emitted, t.value)
          /\ burstChanges' = burstChanges + (IF t.value # debouncedValue THEN 1 ELSE 0)
          /\ UNCHANGED <<normVars, selectedTags>>
          /\ IF t.value # debouncedValue
             THEN /\ \E results \in SearchOutcomes(uniqueTemplates, t.value) :
                        RecomputeFiltered(results)
                  /\ pendingEffects' = PublishEffects
             ELSE UNCHANGED <<working, filteredTemplates, searchResults, pendingEffects>>
    /\ UNCHANGED <<stage, scriptVars, detailVars, hookResult, storeVars, fetchVars, handler,
                   lastUpdateAge, burstBase, burstLen>>

\* Time passes, up to the moment the next timer is due.
Tick ==
    /\ EventReady
    /\ NoTimerDue
    /\ LET waits == {t.remaining : t \in timers} \cup
                    (IF lastUpdateAge >= 0 /\ lastUpdateAge < Delay
                     THEN {Delay - lastUpdateAge} ELSE {})
           step == MinOf(waits \cup {TickStep})
       IN  /\ waits # {}
           /\ timers' = {[t EXCEPT !.remaining = t.remaining - step] : t \in timers}
           /\ lastUpdateAge' =
                 IF lastUpdateAge >= 0 /\ lastUpdateAge < Delay
                 THEN lastUpdateAge + step ELSE lastUpdateAge
    /\ UNCHANGED <<normVars, stage, scriptVars, detailVars, filterVars, storeVars, fetchVars, handler,
                   pendingEffects, searchResults, emitted, burstBase, burstChanges,
                   burstLen>>

(* The store's mutation entry points *)

\* setSearchQuery(q): the raw query changes at once; the render it causes
\* re-runs the effect of useDebounce.  An update that arrives a full quiet
\* interval after the previous one begins a new burst.
SetSearchQuery(q) ==
    /\ EventReady
    /\ NoTimerDue
    /\ q # searchQuery
    /\ searchQuery' = q
    /\ pendingEffects' = <<"debounce">>
    /\ IF lastUpdateAge = -1 \/ lastUpdateAge >= Delay
       THEN /\ emitted' = <<>>
            /\ burstBase' = debouncedValue
            /\ burstChanges' = 0
            /\ burstLen' = 1
       ELSE /\ burstLen' = IF burstLen < MaxBurst THEN burstLen + 1 ELSE burstLen
            /\ UNCHANGED <<emitted, burstBase, burstChanges>>
    /\ lastUpdateAge' = 0
    /\ UNCHANGED <<normVars, stage, scriptVars, detailVars, filterVars, storeFiltered, templatesCount,
                   fetchVars, timerVars, searchResults>>

\* addSelectedTag(tag): the tag set changes at once and the memo is
\* recomputed with the debounced query as it stands.
AddSelectedTag(tag) ==
    /\ EventReady
    /\ tag \notin Range(selectedTags)
    /\ Len(selectedTags) < MaxTags
    /\ selectedTags' = Append(selectedTags, tag)
    /\ UNCHANGED <<normVars, debouncedValue>>
    /\ RecomputeFiltered(searchResults)
    /\ pendingEffects' = PublishEffects
    /\ UNCHANGED <<stage, scriptVars, detailVars, hookResult, storeVars, fetchVars, timerVars, burstVars>>

\* removeSelectedTag(tag)
RemoveSelectedTag(tag) ==
    /\ EventReady
    /\ tag \in Range(selectedTags)
    /\ selectedTags' = SelectSeq(selectedTags, LAMBDA x : x # tag)
    /\ UNCHANGED <<normVars, debouncedValue>>
    /\ RecomputeFiltered(searchResults)
    /\ pendingEffects' = PublishEffects
    /\ UNCHANGED <<stage, scriptVars, detailVars, hookResult, storeVars, fetchVars, timerVars, burstVars>>

(* The publishing effect.  Each store setter sets the field it names. *)

SetFilteredTemplates(list) == storeFiltered' = list

SetTemplatesCount(count) == templatesCount' = count

\* setFilteredTemplates(filteredTemplates)
PublishItems ==
    /\ Len(pendingEffects) > 0
    /\ Head(pendingEffects) = "setFiltered"
    /\ SetFilteredTemplates(filteredTemplates)
    /\ pendingEffects' = Tail(pendingEffects)
    /\ UNCHANGED <<normVars, stage, scriptVars, detailVars, filterVars, searchQuery, templatesCount,
                   fetchVars, timerVars, searchResults, burstVars>>

\* setTemplatesCount(filteredTemplates.length)
PublishCount ==
    /\ Len(pendingEffects) > 0
    /\ Head(pendingEffects) = "setCount"
    /\ SetTemplatesCount(Len(filteredTemplates))
    /\ pendingEffects' = Tail(pendingEffects)
    /\ UNCHANGED <<normVars, stage, scriptVars, detailVars, filterVars, searchQuery, storeFiltered,
                   fetchVars, timerVars, searchResults, burstVars>>

(* The catalog fetch *)

\* The mount effect: fetchTemplates() issues fetch("/meta.json").
FetchEffect ==
    /\ Len(pendingEffects) > 0
    /\ Head(pendingEffects) = "fetch"
    /\ fetchState' = "inflight"
    /\ fetchCount' = fetchCount + 1
    /\ pendingEffects' = Tail(pendingEffects)
    /\ UNCHANGED <<normVars, stage, scriptVars, detailVars, filterVars, storeVars, loading, error,
                   timerVars, searchResults, burstVars>>

\* response.ok and a parsable body: setTemplates(data); setLoading(false),
\* and the render that normalizes, searches and filters the new catalog.
FetchOk(data) ==
    /\ EventReady
    /\ fetchState = "inflight"
    /\ fetchState' = "loaded"
    /\ templates' = data
    /\ loading' = FALSE
    /\ uniqueTemplates' = Normalize(data).out
    /\ renderThrew' = Normalize(data).threw
    /\ UNCHANGED <<debouncedValue, selectedTags>>
    /\ \E results \in SearchOutcomes(Normalize(data).out, debouncedValue) :
          RecomputeFiltered(results)
    /\ pendingEffects' = IF Normalize(data).threw THEN <<>> ELSE PublishEffects
    /\ UNCHANGED <<stage, scriptVars, detailVars, hookResult, storeVars, error, fetchCount, timerVars, burstVars>>

FetchFailures == {"notOk", "rejected", "unparsable"}

\* err.message of what the try block throws.
ErrorMessage(kind) ==
    CASE kind = "notOk" -> "Failed to fetch templates"
      [] kind = "rejected" -> "Failed to fetch"
      [] OTHER -> "Unexpected token"

\* A catch block that forgets setLoading(false).
FetchFailureKeepsLoading(kind) ==
    /\ EventReady
    /\ fetchState = "inflight"
    /\ fetchState' = "failed"
    /\ error' = ErrorMessage(kind)
    /\ UNCHANGED <<normVars, stage, scriptVars, detailVars, filterVars, storeVars, loading, fetchCount,
                   timerVars, pendingEffects, searchResults, burstVars>>

\* The catch block: setError(message); setLoading(false).
FetchFailure(kind) ==
    /\ EventReady
    /\ fetchState = "inflight"
    /\ fetchState' = "failed"
    /\ error' = ErrorMessage(kind)
    /\ loading' = FALSE
    /\ UNCHANGED <<normVars, stage, scriptVars, detailVars, filterVars, storeVars, fetchCount,
                   timerVars, pendingEffects, searchResults, burstVars>>

\* Which branch the component renders.
ViewState ==
    IF loading THEN "loading"
    ELSE IF error # Null /\ error # "" THEN "error"
    ELSE "grid"

-----------------------------------------------------------------------------
(* Specification of the debouncer: the mounted view whose catalog request   *)
(* stays unanswered, under any sequence of query updates and timer firings. *)

InitDebounce == \E initialQuery \in Queries : Mounted(initialQuery)

NextDebounce ==
    \/ \E q \in Queries : SetSearchQuery(q)
    \/ Tick
    \/ TimerFire
    \/ DebounceEffect
    \/ PublishItems
    \/ PublishCount
    \/ FetchEffect

SpecDebounce == InitDebounce /\ [][NextDebounce]_vars

\* The same with the scheduling the browser and React guarantee: time passes,
\* a timer that is due fires, and the effects of a render run.
SpecDebounceFair ==
    /\ SpecDebounce
    /\ WF_vars(Tick)
    /\ WF_vars(TimerFire)
    /\ WF_vars(DebounceEffect)
    /\ WF_vars(PublishItems)
    /\ WF_vars(PublishCount)
    /\ WF_vars(FetchEffect)

-----------------------------------------------------------------------------
(* Specification of the whole view *)

ViewQueries == {<<>>, <<"a">>}

ViewCatalogRecords ==
    ObjectTemplates({"a", "b"}, {"n"}, {<<"x">>, <<"x", "y">>})

ViewCatalogs == SeqsUpTo(ViewCatalogRecords, MaxFilterCatalog)

InitView == Mounted(<<>>)

NextView ==
    \/ \E q \in ViewQueries : SetSearchQuery(q)
    \/ \E tag \in Tags : AddSelectedTag(tag)
    \/ \E tag \in Tags : RemoveSelectedTag(tag)
    \/ Tick
    \/ TimerFire
    \/ DebounceEffect
    \/ PublishItems
    \/ PublishCount
    \/ FetchEffect
    \/ \E data \in ViewCatalogs : FetchOk(data)
    \/ \E kind \in FetchFailures : FetchFailure(kind)

Spec == InitView /\ [][NextView]_vars

-----------------------------------------------------------------------------
(* The detail dialog: selecting a card fetches the template's two          *)
(* documents.  A call of fetchTemplateFiles stays in detailFetches from its *)
(* two fetch calls until its awaits are over; each lookup ends with a       *)
(* response that is ok, a response that is not, or a rejected promise.      *)

Lookups == {"ok", "notOk", "rejected"}

\* The body served at /blueprints/${templateId}/<file>.
DocumentText(templateId, file) == "/blueprints/" \o templateId \o "/" \o file

\* res.ok ? await res.text() : null
Delivered(res, templateId, file) ==
    IF res = "ok" THEN DocumentText(templateId, file) ELSE Null

\* A number no call still awaiting has.
NewRequest ==
    MinOf({i \in 1..(MaxInFlight + 1) : \A r \in detailFetches : r.n # i})

\* handleTemplateClick(template): setSelectedTemplate(template),
\* setTemplateFiles(null) and fetchTemplateFiles(template.id) up to its
\* first await: setModalLoading(true) and the two fetch calls.
HandleTemplateClick(template) ==
    /\ EventReady
    /\ ViewState = "grid"
    /\ Cardinality(detailFetches) < MaxInFlight
    /\ selectedTemplate' = template.id
    /\ templateFiles' = NoFiles
    /\ modalLoading' = TRUE
    /\ detailFetches' = detailFetches \cup {[id |-> template.id, n |-> NewRequest]}
    /\ UNCHANGED <<normVars, stage, filterVars, storeVars, fetchVars, timerVars,
                   pendingEffects, searchResults, burstVars, scriptVars, lastLookups>>

\* The rest of fetchTemplateFiles: Promise.all settles; with two responses
\* setTemplateFiles({dockerCompose, config}), with a rejection the catch
\* block's setTemplateFiles({null, null}); finally setModalLoading(false).
FetchTemplateFilesDone(request, dockerComposeRes, configRes) ==
    /\ request \in detailFetches
    /\ detailFetches' = detailFetches \ {request}
    /\ templateFiles' =
          IF dockerComposeRes = "rejected" \/ configRes = "rejected"
          THEN [loaded |-> TRUE, dockerCompose |-> Null, config |-> Null]
          ELSE [loaded |-> TRUE,
                dockerCompose |-> Delivered(dockerComposeRes, request.id,
                                            "docker-compose.yml"),
                config |-> Delivered(configRes, request.id, "template.toml")]
    /\ modalLoading' = FALSE
    /\ lastLookups' = [id |-> request.id, dockerCompose |-> dockerComposeRes,
                       config |-> configRes]
    /\ UNCHANGED <<normVars, stage, filterVars, storeVars, fetchVars, timerVars,
                   pendingEffects, searchResults, burstVars, scriptVars,
                   selectedTemplate>>

\* onOpenChange(false): setSelectedTemplate(null)
CloseDialog ==
    /\ selectedTemplate # Null
    /\ selectedTemplate' = Null
    /\ UNCHANGED <<normVars, stage, filterVars, storeVars, fetchVars, timerVars,
                   pendingEffects, searchResults, burstVars, scriptVars,
                   templateFiles, modalLoading, detailFetches, lastLookups>>

\* The view once the catalog has arrived, its effects have run and the
\* timer of the first render has fired: the grid shows every card.
LoadedView(data) ==
    /\ templates = data
    /\ uniqueTemplates = Normalize(data).out
    /\ renderThrew = FALSE
    /\ stage = "mounted"
    /\ searchQuery = <<>>
    /\ debouncedValue = <<>>
    /\ selectedTags = <<>>
    /\ working = Normalize(data).out
    /\ filteredTemplates = Normalize(data).out
    /\ hookResult = <<>>
    /\ storeFiltered = Normalize(data).out
    /\ templatesCount = Len(Normalize(data).out)
    /\ loading = FALSE
    /\ error = Null
    /\ fetchState = "loaded"
    /\ fetchCount = 1
    /\ timers = {}
    /\ handler = 1
    /\ pendingEffects = <<>>
    /\ searchResults = <<>>
    /\ lastUpdateAge = -1
    /\ emitted = << <<>> >>
    /\ burstBase = <<>>
    /\ burstChanges = 0
    /\ burstLen = 0
    /\ DetailAtRest
    /\ ScriptAtRest

InitDetail == \E data \in ViewCatalogs : LoadedView(data)

NextDetail ==
    \/ \E i \in 1..Len(filteredTemplates) : HandleTemplateClick(filteredTemplates[i])
    \/ \E request \in detailFetches :
          \E dockerComposeRes \in Lookups, configRes \in Lookups :
              FetchTemplateFilesDone(request, dockerComposeRes, configRes)
    \/ CloseDialog

SpecDetail == InitDetail /\ [][NextDetail]_vars

-----------------------------------------------------------------------------
(* dedupe-and-sort-meta.js.  A file is missing, or holds a text: its kind   *)
(* is "invalid" (not JSON), "value" (JSON, not an array) or "array"; an     *)
(* array text has a layout ("pretty" is the layout JSON.stringify(x, null,  *)
(* 2) writes) and the entries it parses to.  An entry's id is a string, a   *)
(* number or absent.                                                        *)

MaxEntries == 3

ScriptIds == {"", "a", "B", "b"}
ScriptNames == {"p", "q"}

ScriptEntries ==
    {[kind |-> "null", idType |-> "missing", id |-> "", name |-> ""],
     [kind |-> "primitive", idType |-> "missing", id |-> "", name |-> ""]}
    \cup {[kind |-> "object", idType |-> "missing", id |-> "", name |-> n] :
            n \in ScriptNames}
    \cup {[kind |-> "object", idType |-> "string", id |-> i, name |-> n] :
            i \in ScriptIds, n \in ScriptNames}
    \cup {[kind |-> "object", idType |-> "number", id |-> "7", name |-> n] :
            n \in ScriptNames}

ArrayText(layout, entries) == [kind |-> "array", layout |-> layout, entries |-> entries]

FileTexts ==
    {[kind |-> "invalid"], [kind |-> "value"]}
    \cup {ArrayText(l, e) : l \in {"pretty", "compact"},
                            e \in SeqsUpTo(ScriptEntries, MaxEntries)}

\* JSON.stringify(unique, null, 2)
Stringify(entries) == ArrayText("pretty", entries)

\* !item || typeof item !== "object"
InvalidItem(item) == item.kind # "object"

\* !item.id
NoId(item) == item.idType = "missing" \/ (item.idType = "string" /\ item.id = "")

\* Set membership compares a number with a string as different values.
IdKey(item) == <<item.idType, item.id>>

\* A loop that lets a later entry take the place of the first with its id.
DedupeStepKeepLast(acc, item) ==
    IF InvalidItem(item) \/ NoId(item) THEN acc
    ELSE IF IdKey(item) \in acc.seenIds
         THEN [acc EXCEPT !.unique =
                  [i \in 1..Len(acc.unique) |->
                      IF IdKey(acc.unique[i]) = IdKey(item) THEN item ELSE acc.unique[i]]]
         ELSE [seenIds |-> acc.seenIds \cup {IdKey(item)},
               unique |-> Append(acc.unique, item)]

\* One call of the data.forEach callback.
DedupeStep(acc, item) ==
    IF InvalidItem(item) \/ NoId(item) THEN acc
    ELSE IF IdKey(item) \in acc.seenIds THEN acc
         ELSE [seenIds |-> acc.seenIds \cup {IdKey(item)},
               unique |-> Append(acc.unique, item)]

RECURSIVE DedupeLoop(_, _, _)
DedupeLoop(acc, data, i) ==
    IF i > Len(data) THEN acc
    ELSE DedupeLoop(DedupeStep(acc, data[i]), data, i + 1)

Dedupe(data) == DedupeLoop([seenIds |-> {}, unique |-> <<>>], data, 1).unique

\* String.prototype.toLowerCase
ToLowerCase(id) == IF id = "B" THEN "b" ELSE id

\* The place of a lower-case id in the alphabet's order.
AlphabetRank(id) ==
    CASE id = "" -> 0
      [] id = "a" -> 1
      [] id = "b" -> 2
      [] OTHER -> 3

\* idA.localeCompare(idB) for lower-case ids: negative, zero or positive.
LocaleCompare(idA, idB) == AlphabetRank(idA) - AlphabetRank(idB)

\* The comparator: (a, b) => a.id.toLowerCase().localeCompare(b.id.toLowerCase())
CompareIds(a, b) == LocaleCompare(ToLowerCase(a.id), ToLowerCase(b.id))

\* a.id.toLowerCase is not a function: the comparator throws a TypeError.
\* A sort of two or more entries passes every entry to the comparator.
SortThrows(list) ==
    Len(list) >= 2 /\ \E i \in 1..Len(list) : list[i].idType # "string"

\* Insert item after the entries that do not compare greater than it.
RECURSIVE InsertSorted(_, _)
InsertSorted(sorted, item) ==
    IF Len(sorted) = 0 THEN <<item>>
    ELSE IF CompareIds(Head(sorted), item) <= 0
         THEN <<Head(sorted)>> \o InsertSorted(Tail(sorted), item)
         ELSE <<item>> \o sorted

\* Array.prototype.sort with the comparator: a stable sort.
RECURSIVE SortById(_)
SortById(list) ==
    IF Len(list) = 0 THEN <<>>
    ELSE InsertSorted(SortById(SubSeq(list, 1, Len(list) - 1)), list[Len(list)])

InitScript ==
    /\ templates = <<>>
    /\ uniqueTemplates = <<>>
    /\ renderThrew = FALSE
    /\ stage = "script"
    /\ debouncedValue = <<>>
    /\ selectedTags = <<>>
    /\ working = <<>>
    /\ filteredTemplates = <<>>
    /\ hookResult = <<>>
    /\ ViewAtRest
    /\ metaFile \in FileTexts \cup {[kind |-> "missing"]}
    /\ backupFiles = {}
    /\ fileContent = [kind |-> "missing"]
    /\ unique = <<>>
    /\ scriptPc = "start"
    /\ exitCode = -1

\* The catch block: process.exit(1).
ScriptFails ==
    /\ scriptPc' = "exited"
    /\ exitCode' = 1
    /\ UNCHANGED <<metaFile, backupFiles, unique>>

\* A script that saves the backup as soon as it has read the file, before
\* it parses, validates and sorts.
ReadAndSortBackupFirst ==
    /\ scriptPc = "start"
    /\ IF metaFile.kind = "missing"
       THEN ScriptFails /\ UNCHANGED fileContent
       ELSE /\ fileContent' = metaFile
            /\ backupFiles' = backupFiles \cup {metaFile}
            /\ IF metaFile.kind # "array" \/ SortThrows(Dedupe(metaFile.entries))
               THEN /\ scriptPc' = "exited"
                    /\ exitCode' = 1
                    /\ UNCHANGED <<metaFile, unique>>
               ELSE /\ unique' = SortById(Dedupe(metaFile.entries))
                    /\ scriptPc' = "backup"
                    /\ UNCHANGED <<metaFile, exitCode>>
    /\ UNCHANGED <<normVars, stage, filterVars, viewVars>>

\* existsSync, readFileSync, JSON.parse, Array.isArray, the forEach that
\* drops duplicates, and the sort: everything before the first write.
ReadAndSort ==
    /\ scriptPc = "start"
    /\ IF metaFile.kind = "missing"
       THEN ScriptFails /\ UNCHANGED fileContent
       ELSE /\ fileContent' = metaFile
            /\ IF metaFile.kind # "array" \/ SortThrows(Dedupe(metaFile.entries))
               THEN ScriptFails
               ELSE /\ unique' = SortById(Dedupe(metaFile.entries))
                    /\ scriptPc' = "backup"
                    /\ UNCHANGED <<metaFile, backupFiles, exitCode>>
    /\ UNCHANGED <<normVars, stage, filterVars, viewVars>>

\* A script that goes on to overwrite the catalog without saving a backup.
WriteBackupSkipped ==
    /\ scriptPc = "backup"
    /\ scriptPc' = "write"
    /\ UNCHANGED <<normVars, stage, filterVars, viewVars,
                   metaFile, backupFiles, fileContent, unique, exitCode>>

\* fs.writeFileSync(backupPath, fileContent)
WriteBackup ==
    /\ scriptPc = "backup"
    /\ backupFiles' = backupFiles \cup {fileContent}
    /\ scriptPc' = "write"
    /\ UNCHANGED <<normVars, stage, filterVars, viewVars,
                   metaFile, fileContent, unique, exitCode>>

\* fs.writeFileSync(filePath, JSON.stringify(unique, null, 2)), the report
\* and the return.
WriteCatalog ==
    /\ scriptPc = "write"
    /\ metaFile' = Stringify(unique)
    /\ scriptPc' = "done"
    /\ exitCode' = 0
    /\ UNCHANGED <<normVars, stage, filterVars, viewVars,
                   backupFiles, fileContent, unique>>

NextScript == ReadAndSort \/ WriteBackup \/ WriteCatalog

SpecScript == InitScript /\ [][NextScript]_vars

-----------------------------------------------------------------------------
(* Claims about the normalizer, under SpecNorm *)

Normalized == stage = "normalized" /\ ~renderThrew

\* Every record is an object with a usable id and a usable name.
AllFullyFormed ==
    \A i \in 1..Len(templates) :
        /\ templates[i].kind = "object"
        /\ ~Falsy(templates[i].id)
        /\ ~Falsy(templates[i].name)

\* C1: for every raw catalog, the ids of the normalized catalog are
\* pairwise distinct.
C1_DistinctIds ==
    Normalized =>
        \A i, j \in 1..Len(uniqueTemplates) :
            i # j => uniqueTemplates[i].id # uniqueTemplates[j].id

\* A normalized catalog of at least two entries whose raw catalog had a
\* duplicate id and a record without a usable id.
C1_Witness ==
    /\ Normalized
    /\ Len(uniqueTemplates) >= 2
    /\ \E i, j \in 1..Len(templates) : i # j /\ templates[i].id = templates[j].id
    /\ \E i \in 1..Len(templates) : Falsy(templates[i].id)

\* C2: normalization never drops a record: a raw catalog of well-formed
\* records yields a normalized catalog of the same length.
C2_NoRecordDropped ==
    (Normalized /\ AllFullyFormed) => Len(uniqueTemplates) = Len(templates)

\* C8: a record that is not well-formed is skipped, does not appear in the
\* normalized catalog, and never aborts normalization.
C8_MalformedSkipped ==
    stage = "normalized" =>
        /\ ~renderThrew
        /\ \A i \in 1..Len(uniqueTemplates) :
               WellFormed(templates[uniqueTemplates[i].pos + 1])

\* The raw record at position k is the first that declares its id.
FirstDeclaring(k) ==
    \A j \in 1..(k - 1) : templates[j].id # templates[k].id

\* C15: the entry of the normalized catalog whose id equals a raw id R
\* carries the data of the first raw record that declared R: no later
\* record takes over or overwrites that slot.
C15_FirstRecordKeepsItsId ==
    (Normalized /\ AllFullyFormed) =>
        \A i \in 1..Len(uniqueTemplates) :
            \A k \in 1..Len(templates) :
                (templates[k].id = uniqueTemplates[i].id /\ FirstDeclaring(k))
                    => uniqueTemplates[i].pos = k - 1

-----------------------------------------------------------------------------
(* Claims about the filter pipeline, under SpecFilter *)

Blank(query) == \A i \in 1..Len(query) : query[i] = " "

IsSubsequence(a, b) ==
    \E f \in [1..Len(a) -> 1..Len(b)] :
        /\ \A i \in 1..Len(a) : a[i] = b[f[i]]
        /\ \A i, j \in 1..Len(a) : i < j => f[i] < f[j]

\* C3: with a debounced query that is empty or only whitespace and no tag
\* selected, the filter pipeline (and the search of useFuseSearch) returns
\* the full normalized catalog, same records in the same order.
C3_BlankQueryReturnsCatalog ==
    (stage = "filtered" /\ Blank(debouncedValue) /\ Len(selectedTags) = 0) =>
        /\ filteredTemplates = uniqueTemplates
        /\ hookResult = uniqueTemplates

\* A whitespace-only query over a catalog of two records, no tag selected.
C3_Witness ==
    /\ stage = "filtered"
    /\ Len(debouncedValue) > 0
    /\ Blank(debouncedValue)
    /\ Len(selectedTags) = 0
    /\ Len(filteredTemplates) = 2

\* C4: with a non-empty selectedTags the filtered result holds exactly the
\* records of the working set whose tags include every selected tag.
C4_ExactlyRecordsWithAllTags ==
    (stage = "filtered" /\ Len(selectedTags) > 0) =>
        /\ Range(filteredTemplates) =
              {t \in Range(working) : Range(selectedTags) \subseteq Range(t.tags)}
        /\ \A i, j \in 1..Len(filteredTemplates) :
              i # j => filteredTemplates[i] # filteredTemplates[j]

\* Two tags selected after a search: one record of the working set is
\* retained and one, which has only one of the two tags, is not.
C4_Witness ==
    /\ stage = "filtered"
    /\ ~Blank(debouncedValue)
    /\ Cardinality(Range(selectedTags)) = 2
    /\ Len(working) = 2
    /\ Len(filteredTemplates) = 1
    /\ \E i \in 1..2 : Cardinality(Range(working[i].tags)) = 1

\* C7: the filtered result is a subsequence of the working set produced by
\* the text stage.
C7_TagFilterKeepsOrder ==
    stage = "filtered" => IsSubsequence(filteredTemplates, working)

\* A search returned the records in another order than the catalog's and
\* the tag stage retained two of them.
C7_Witness ==
    /\ stage = "filtered"
    /\ ~Blank(debouncedValue)
    /\ Len(selectedTags) > 0
    /\ Len(filteredTemplates) = 2
    /\ working # uniqueTemplates
    /\ Range(working) = Range(uniqueTemplates)

-----------------------------------------------------------------------------
(* Claims about the debouncer, under SpecDebounce.  A burst is a           *)
(* run of query updates each less than Delay after the one before; it is   *)
(* over once Delay has passed since its last update and its timer fired.    *)

BurstOngoing == lastUpdateAge >= 0 /\ lastUpdateAge < Delay

BurstOver == lastUpdateAge >= Delay /\ timers = {} /\ pendingEffects = <<>>

\* C5 as stated: over a burst the debounced value changes exactly once.
C5_ChangesExactlyOnce == BurstOver => burstChanges = 1

\* C5, amended: while a burst goes on nothing is emitted and the debounced
\* value stays as it was; once the quiet interval has passed the one pending
\* timer is the one of the last update, and when it has fired
\* setDebouncedValue has been called exactly once in the burst, with the last
\* value, which changed the debounced value once, or not at all when the
\* last value is the value the debouncer already held.
C5_BurstEmitsLastValueOnce ==
    /\ BurstOngoing =>
          /\ emitted = <<>>
          /\ burstChanges = 0
          /\ debouncedValue = burstBase
    /\ (lastUpdateAge >= Delay /\ timers # {}) =>
          /\ emitted = <<>>
          /\ \A t \in timers : t.value = searchQuery /\ t.remaining = 0
    /\ BurstOver =>
          /\ emitted = <<searchQuery>>
          /\ debouncedValue = searchQuery
          /\ burstChanges = (IF searchQuery # burstBase THEN 1 ELSE 0)

\* A burst of three updates is over and changed the debounced value.
C5_Witness ==
    /\ BurstOver
    /\ burstLen = 3
    /\ emitted = <<searchQuery>>
    /\ burstChanges = 1

\* The effect of useDebounce has run for the current query.
DebounceEffectDone ==
    \A i \in 1..Len(pendingEffects) : pendingEffects[i] # "debounce"

\* C12: at most one debounce timer is pending at any time: each query
\* update releases the timer of the update before it when it schedules its
\* own, so the one pending timer is the one the latest effect scheduled and
\* a timer that is able to fire carries the current query, never a
\* superseded one.
C12_AtMostOneTimer ==
    /\ Cardinality(timers) <= 1
    /\ \A t \in timers :
          /\ t.id = handler
          /\ DebounceEffectDone => t.value = searchQuery

\* Three updates in a burst: one timer is pending, for the third value, and
\* part of its delay has passed.
C12_Witness ==
    /\ BurstOngoing
    /\ burstLen = 3
    /\ DebounceEffectDone
    /\ Cardinality(timers) = 1
    /\ \A t \in timers : t.value = searchQuery /\ t.remaining < Delay
    /\ debouncedValue # searchQuery

\* C13: on the first render the debounced query equals the initial raw
\* query, before any timer has fired and whatever the initial raw query is.
C13_FirstRenderSeedsDebounced ==
    (lastUpdateAge = -1 /\ emitted = <<>>) => debouncedValue = searchQuery

\* Mounted with a query that is not empty; the first timer is pending and
\* has not fired.
C13_Witness ==
    /\ lastUpdateAge = -1
    /\ emitted = <<>>
    /\ Len(searchQuery) = MaxQueryLen
    /\ ~Blank(searchQuery)
    /\ debouncedValue = searchQuery
    /\ \E t \in timers : t.remaining > 0 /\ t.remaining < Delay

-----------------------------------------------------------------------------
(* Claims about the whole view, under Spec *)

\* C6: in every state of the store a consumer can observe, the published
\* count equals the length of the published item list.
C6_CountMatchesItems == templatesCount = Len(storeFiltered)

\* C9: once the catalog fetch has failed the view shows the error state with
\* loading cleared and the catalog unset, the fetch is not issued again, and
\* this stays so whatever query or tag mutation follows.
C9_FetchFailureIsTerminal ==
    fetchState = "failed" =>
        /\ ViewState = "error"
        /\ loading = FALSE
        /\ templates = <<>>
        /\ uniqueTemplates = <<>>
        /\ fetchCount = 1

\* The fetch failed; a query update has since been debounced and a tag is
\* selected.
C9_Witness ==
    /\ fetchState = "failed"
    /\ ViewState = "error"
    /\ searchQuery # <<>>
    /\ debouncedValue = searchQuery
    /\ Len(selectedTags) > 0
    /\ pendingEffects = <<>>

\* C16: once no render or effect is pending, the item list published to
\* the store is the filter pipeline's result for the current normalized
\* catalog, debounced query and selected tags.
C16_PublishedIsFilterOfCurrent ==
    (pendingEffects = <<>> /\ ~renderThrew) =>
        storeFiltered =
            FilterTemplates(uniqueTemplates, debouncedValue, selectedTags, searchResults)

\* A catalog of two records is loaded, a query has been debounced and a tag
\* is selected; the published list holds one of the two records.
C16_Witness ==
    /\ pendingEffects = <<>>
    /\ fetchState = "loaded"
    /\ Len(uniqueTemplates) = 2
    /\ ~Blank(debouncedValue)
    /\ Len(selectedTags) > 0
    /\ Len(storeFiltered) = 1

\* C17: a change of the selected tags is applied without debouncing: the
\* filtered result computed next uses the new tags with the debounced query
\* as it stands, also while a debounce timer is pending, and the change
\* leaves the raw query, the debounced query and the pending timer as they
\* were.
C17_TagChangeNotDebounced ==
    [][selectedTags' # selectedTags =>
          /\ filteredTemplates' =
                FilterTemplates(uniqueTemplates, debouncedValue, selectedTags',
                                searchResults)
          /\ UNCHANGED <<searchQuery, debouncedValue, timers, handler>>]_vars

\* A tag was changed while a timer for a query not yet debounced was
\* pending: the new filtered result, which is not yet published, differs
\* from the published one.
C17_Witness ==
    /\ pendingEffects = PublishEffects
    /\ \E t \in timers : t.remaining > 0 /\ t.remaining < Delay
    /\ debouncedValue # searchQuery
    /\ Len(selectedTags) > 0
    /\ storeFiltered # <<>>
    /\ filteredTemplates # storeFiltered

-----------------------------------------------------------------------------
(* Claims about the detail dialog, under SpecDetail *)

\* C14: the two lookups are independently optional: a document whose
\* lookup did not succeed is delivered as null, no error state is raised,
\* and the other document, if its lookup succeeded, is delivered with its
\* content.
C14_LookupsIndependentlyOptional ==
    templateFiles.loaded =>
        /\ error = Null
        /\ templateFiles.dockerCompose =
              Delivered(lastLookups.dockerCompose, lastLookups.id, "docker-compose.yml")
        /\ templateFiles.config =
              Delivered(lastLookups.config, lastLookups.id, "template.toml")

\* C18: under every interleaving of selections and completions of detail
\* fetches, documents that are shown are the ones fetched for the selected
\* template, and modalLoading is false only when no fetch for the selected
\* template is awaiting.
C18_FilesBelongToSelected ==
    /\ (templateFiles.loaded /\ selectedTemplate # Null) =>
          lastLookups.id = selectedTemplate
    /\ (~modalLoading /\ selectedTemplate # Null) =>
          \A request \in detailFetches : request.id # selectedTemplate

-----------------------------------------------------------------------------
(* Claims about the maintenance script, under SpecScript *)

\* The entries the script read.
ReadEntries == fileContent.entries

\* An object with a non-empty id.
HasUsableId(item) ==
    item.kind = "object" /\ item.idType # "missing" /\ item.id # ""

SameId(a, b) == a.idType = b.idType /\ a.id = b.id

\* The entry at position i is the first of the input with its id.
FirstWithItsId(i) ==
    /\ HasUsableId(ReadEntries[i])
    /\ \A j \in 1..(i - 1) :
          ~(HasUsableId(ReadEntries[j]) /\ SameId(ReadEntries[j], ReadEntries[i]))

\* The place of an id in the alphabetical order that ignores case.
CaseInsensitiveRank(id) ==
    CASE id \in {"a", "A"} -> 1
      [] id \in {"b", "B"} -> 2
      [] OTHER -> 3

C11_BackupBeforeOverwrite ==
    (scriptPc # "start" /\ metaFile # fileContent) => fileContent \in backupFiles

\* The script has rewritten a catalog whose entries were not in order: the
\* file differs from what was read and the backup holds what was read.
C11_Witness ==
    /\ scriptPc = "done"
    /\ metaFile # fileContent
    /\ fileContent.kind = "array"
    /\ Len(fileContent.entries) = 3
    /\ metaFile.entries # fileContent.entries
    /\ backupFiles = {fileContent}

\* C20: a script that fails (file missing, invalid JSON, JSON that is not an
\* array, or an id that is not a string) exits with code 1 and has written
\* neither a backup nor the catalog.
C20_FailureWritesNothing ==
    scriptPc = "exited" =>
        /\ exitCode = 1
        /\ backupFiles = {}
        /\ (fileContent.kind # "missing" => metaFile = fileContent)
        /\ \/ metaFile.kind \in {"missing", "invalid", "value"}
           \/ \E i \in 1..Len(ReadEntries) : ReadEntries[i].idType = "number"

\* The script failed in the sort of an array of three entries, one of them
\* with an id that is a number.
C20_Witness ==
    /\ scriptPc = "exited"
    /\ exitCode = 1
    /\ fileContent.kind = "array"
    /\ Len(ReadEntries) = 3
    /\ \E i \in 1..3 : ReadEntries[i].idType = "number"
    /\ metaFile = fileContent

====
